---- MODULE Spec2Model ----
(***************************************************************************)
(* Model of the connection dialer of yggdrasil-go                          *)
(* (src/yggdrasil/dialer.go): address resolution in Dialer.DialContext,    *)
(* the key composition in Dialer.DialByPublicKey and the search /          *)
(* handshake-wait state machine of Dialer.DialByNodeIDandMask.             *)
(*                                                                         *)
(* Time is a discrete clock `now` counted in seconds.  Statements of the   *)
(* dialer that do not block take no time; the two blocking points are the  *)
(* search (any duration) and the select of lines 101-110, which the Go     *)
(* runtime resolves as soon as one of its cases is ready and by an         *)
(* arbitrary choice when both are ready.                                   *)
(*                                                                         *)
(* Strings are sequences of one-character strings.  Byte arrays are        *)
(* sequences of numbers 0..255.                                            *)
(***************************************************************************)
EXTENDS Integers, Sequences, FiniteSets, TLC

(***************************************************************************)
(* Sizes.  crypto.BoxPubKeyLen is 32 and crypto.NodeIDLen is 64 in the     *)
(* crypto package; the model is parametric in them and is checked with     *)
(* scaled-down arrays.                                                     *)
(***************************************************************************)
BoxPubKeyLen == 1

NodeIDLen == 2

MaxSearch == 2

MaxDeadline == 3

DefaultTimeout == 6

NodeIDBits == NodeIDLen * 8

Unset == -1

Min(a, b) == IF a <= b THEN a ELSE b

Max(a, b) == IF a >= b THEN a ELSE b

(***************************************************************************)
(* Byte arithmetic.                                                        *)
(***************************************************************************)
RECURSIVE Pow2(_)
Pow2(n) == IF n = 0 THEN 1 ELSE 2 * Pow2(n - 1)

\* bit k (0 = least significant) of the byte b
BitOf(b, k) == (b \div Pow2(k)) % 2

\* b | c on bytes
ByteOr(b, c) ==
    LET Or(k) == IF BitOf(b, k) = 1 \/ BitOf(c, k) = 1 THEN Pow2(k) ELSE 0
    IN  Or(0) + Or(1) + Or(2) + Or(3) + Or(4) + Or(5) + Or(6) + Or(7)

\* variant: 0x01 << byte(k), the least significant bit first
Shl01(k) == Pow2(k)

\* 0x80 >> byte(k)
Shr80(k) == 128 \div Pow2(k)

ZeroArray(n) == [i \in 1..n |-> 0]

\* copy(dst[:], src): min(len) leading bytes are overwritten
Copy(dst, src) ==
    [i \in 1..Len(dst) |-> IF i <= Len(src) THEN src[i] ELSE dst[i]]

(***************************************************************************)
(* encoding/hex, strconv and strings, as used by DialContext.              *)
(***************************************************************************)
HexChars == <<"0", "1", "2", "3", "4", "5", "6", "7", "8", "9",
              "a", "b", "c", "d", "e", "f">>

UpperHexChars == <<"A", "B", "C", "D", "E", "F">>

DecChars == <<"0", "1", "2", "3", "4", "5", "6", "7", "8", "9">>

IndexIn(seq, c) ==
    IF \E i \in 1..Len(seq) : seq[i] = c
    THEN CHOOSE i \in 1..Len(seq) : seq[i] = c
    ELSE 0

\* value of a hex digit, Unset when the character is not one
HexVal(c) ==
    IF IndexIn(HexChars, c) # 0 THEN IndexIn(HexChars, c) - 1
    ELSE IF IndexIn(UpperHexChars, c) # 0 THEN IndexIn(UpperHexChars, c) + 9
    ELSE Unset

\* hex.DecodeString: [err |-> BOOLEAN, bytes |-> decoded bytes]
HexDecodeString(s) ==
    IF \/ Len(s) % 2 # 0
       \/ \E i \in 1..Len(s) : HexVal(s[i]) = Unset
    THEN [err |-> TRUE, bytes |-> <<>>]
    ELSE [err |-> FALSE,
          bytes |-> [i \in 1..(Len(s) \div 2) |->
                        16 * HexVal(s[2 * i - 1]) + HexVal(s[2 * i])]]

RECURSIVE DigitsValue(_)
DigitsValue(s) ==
    IF Len(s) = 0 THEN 0
    ELSE 10 * DigitsValue(SubSeq(s, 1, Len(s) - 1))
         + (IndexIn(DecChars, s[Len(s)]) - 1)

\* strconv.Atoi: optional sign, then at least one decimal digit
Atoi(s) ==
    LET signed == Len(s) > 0 /\ s[1] \in {"+", "-"}
        digits == IF signed THEN Tail(s) ELSE s
    IN  IF \/ Len(digits) = 0
           \/ \E i \in 1..Len(digits) : IndexIn(DecChars, digits[i]) = 0
        THEN [err |-> TRUE, val |-> 0]
        ELSE [err |-> FALSE,
              val |-> IF signed /\ s[1] = "-" THEN 0 - DigitsValue(digits)
                                              ELSE DigitsValue(digits)]

\* strings.Split(s, "/")
RECURSIVE Split(_)
Split(s) ==
    IF \A i \in 1..Len(s) : s[i] # "/"
    THEN <<s>>
    ELSE LET k == CHOOSE i \in 1..Len(s) :
                      s[i] = "/" /\ \A j \in 1..(i - 1) : s[j] # "/"
         IN  <<SubSeq(s, 1, k - 1)>> \o Split(SubSeq(s, k + 1, Len(s)))

(***************************************************************************)
(* Address resolution of DialContext.                                      *)
(***************************************************************************)
ErrHex == "encoding/hex: invalid input"

ErrAtoi == "strconv.Atoi: invalid syntax"

ErrKeyLength == "invalid key length supplied"

ErrAddressType == "unexpected address type"

ErrHandshake == "session handshake timeout"

NoErr == "nil"

\* for i := range nodeMask { nodeMask[i] = 0xFF }
AllOnesMask == [i \in 1..NodeIDLen |-> 255]

\* nodeMask[idx/8] |= 0x80 >> byte(idx%8)
SetMaskBit(mask, idx) ==
    [mask EXCEPT ![(idx \div 8) + 1] = ByteOr(@, Shr80(idx % 8))]

\* for idx := 0; idx < l; idx++ { ... }: the index expression panics when
\* idx/8 is outside the array
RECURSIVE MaskLoop(_, _, _)
MaskLoop(mask, idx, l) ==
    IF ~(idx < l) THEN [panic |-> FALSE, mask |-> mask]
    ELSE IF idx \div 8 >= NodeIDLen THEN [panic |-> TRUE, mask |-> mask]
    ELSE MaskLoop(SetMaskBit(mask, idx), idx + 1, l)

\* crypto.GetNodeID: a fixed function of the key (a hash in the crypto
\* package)
GetNodeID(pubKey) ==
    [i \in 1..NodeIDLen |->
        (pubKey[((i - 1) % BoxPubKeyLen) + 1] * 7 + 13 * i) % 256]

Resolved(kind, err, nodeID, nodeMask) ==
    [kind |-> kind, err |-> err, nodeID |-> nodeID, nodeMask |-> nodeMask]

ResolveError(err) == Resolved("error", err, <<>>, <<>>)

\* case "http", "curve25519" (lines 36-48) up to the call of DialByPublicKey
ResolveKey(address) ==
    LET dec == HexDecodeString(address)
    IN  IF dec.err THEN ResolveError(ErrHex)
        ELSE IF Len(dec.bytes) # BoxPubKeyLen THEN ResolveError(ErrKeyLength)
        ELSE Resolved("key", NoErr,
                      Copy(ZeroArray(BoxPubKeyLen), dec.bytes), <<>>)

\* case "nodeid" (lines 49-74) up to the call of DialByNodeIDandMask
ResolveNodeID(address) ==
    LET tokens == Split(address)
    IN  IF Len(tokens) = 2
        THEN LET l == Atoi(tokens[2])
                 dec == HexDecodeString(tokens[1])
                 loop == MaskLoop(ZeroArray(NodeIDLen), 0, l.val)
             IN  IF l.err THEN ResolveError(ErrAtoi)
                 ELSE IF dec.err THEN ResolveError(ErrHex)
                 ELSE IF loop.panic
                      THEN Resolved("panic", NoErr, <<>>, <<>>)
                 ELSE Resolved("nodeid", NoErr,
                               Copy(ZeroArray(NodeIDLen), dec.bytes),
                               loop.mask)
        ELSE LET dec == HexDecodeString(tokens[1])
             IN  IF dec.err THEN ResolveError(ErrHex)
                 ELSE Resolved("nodeid", NoErr,
                               Copy(ZeroArray(NodeIDLen), dec.bytes),
                               AllOnesMask)

\* variant: a network that is no key scheme is taken as "nodeid"
ResolveAddress_DefaultNodeID(network, address) ==
    IF network \in {"http", "curve25519"} THEN ResolveKey(address)
    ELSE ResolveNodeID(address)

\* switch network (lines 35-78)
ResolveAddress(network, address) ==
    IF network \in {"http", "curve25519"} THEN ResolveKey(address)
    ELSE IF network = "nodeid" THEN ResolveNodeID(address)
    ELSE ResolveError(ErrAddressType)

\* variant: the key is matched under an empty mask
PublicKeyTarget_NoMask(pubKey) ==
    [nodeID |-> GetNodeID(pubKey), nodeMask |-> ZeroArray(NodeIDLen)]

\* DialByPublicKey (lines 116-123): the arguments handed on
PublicKeyTarget(pubKey) ==
    [nodeID |-> GetNodeID(pubKey), nodeMask |-> AllOnesMask]

(***************************************************************************)
(* Calls made by the caller.                                               *)
(***************************************************************************)
HexOf(n) == [i \in 1..(2 * n) |-> IF i % 2 = 1 THEN "a" ELSE "5"]

RECURSIVE NatString(_)
NatString(n) ==
    IF n < 10 THEN <<DecChars[n + 1]>>
    ELSE NatString(n \div 10) \o <<DecChars[(n % 10) + 1]>>

IntString(n) == IF n < 0 THEN <<"-">> \o NatString(0 - n) ELSE NatString(n)

HexTokens ==
    {HexOf(n) : n \in 0..(NodeIDLen + 1)} \cup {<<"f">>, <<"g", "0">>, <<"F", "f">>}

PrefixTokens ==
    {IntString(p) : p \in (0 - 1)..(NodeIDBits + 1)}
        \cup {<<"x">>, <<>>, <<"+", "3">>}

Addresses ==
    HexTokens
        \cup {HexOf(NodeIDLen) \o <<"/">> \o p : p \in PrefixTokens}
        \cup {h \o <<"/">> \o p : h \in HexTokens,
                                   p \in {<<"8">>, <<"-", "1">>, <<"x">>}}
        \cup {HexOf(NodeIDLen) \o <<"/", "8", "/", "1">>}

Networks == {"http", "curve25519", "nodeid", "tcp", "", "NodeID", "nodeid/"}

PubKeys == {[i \in 1..BoxPubKeyLen |-> b] : b \in {0, 165}}

NodeIDs == {[i \in 1..NodeIDLen |-> b] : b \in {165}}

Masks == {AllOnesMask, [i \in 1..NodeIDLen |-> IF i = 1 THEN 255 ELSE 0]}

\* deadlines of the caller: early ones, and one that is later than the
\* default window unless the search takes MaxSearch
CallerDeadlines == (0..MaxDeadline) \cup {MaxSearch + DefaultTimeout}

\* contexts: nil, Background, WithCancel and WithDeadline(t)
Contexts ==
    {[kind |-> k, deadline |-> Unset] : k \in {"nil", "background", "cancel"}}
        \cup {[kind |-> "deadline", deadline |-> t] : t \in CallerDeadlines}

NilContext == [kind |-> "nil", deadline |-> Unset]

NoArg == <<>>

Calls ==
    {[entry |-> "DialContext", ctx |-> c, network |-> n, address |-> a,
      pubKey |-> NoArg, nodeID |-> NoArg, nodeMask |-> NoArg] :
        c \in Contexts, n \in Networks, a \in Addresses}
    \cup
    {[entry |-> "Dial", ctx |-> NilContext, network |-> n, address |-> a,
      pubKey |-> NoArg, nodeID |-> NoArg, nodeMask |-> NoArg] :
        n \in Networks, a \in Addresses}
    \cup
    {[entry |-> "DialByPublicKey", ctx |-> c, network |-> "", address |-> NoArg,
      pubKey |-> k, nodeID |-> NoArg, nodeMask |-> NoArg] :
        c \in Contexts, k \in PubKeys}
    \cup
    {[entry |-> "DialByNodeIDandMask", ctx |-> c, network |-> "",
      address |-> NoArg, pubKey |-> NoArg, nodeID |-> i, nodeMask |-> m] :
        c \in Contexts, i \in NodeIDs, m \in Masks}

(***************************************************************************)
(* State.                                                                  *)
(*   now       the clock, in seconds                                       *)
(*   dial[d]   one dial attempt: the call, the position in the code, the   *)
(*             locals of DialByNodeIDandMask, the pending Conn, its        *)
(*             session and what was returned; doneAtWait records whether   *)
(*             the caller's context was done when the wait began; regs and *)
(*             unregs count the registrations and releases of the Conn's   *)
(*             session binding, writes and sent log the calls of Write and *)
(*             the messages handed to the session                          *)
(*   registry  the dials whose Conn is registered as the local end of a    *)
(*             session                                                     *)
(***************************************************************************)
VARIABLES now, dial, registry

vars == <<now, dial, registry>>

DialIds == {1, 2}

SearchCauses == {"search failed: no response", "search failed: no route"}

NoTarget == [nodeID |-> <<>>, nodeMask |-> <<>>]

\* a dial attempt whose call has not been made yet
Idle(c) ==
    [pc |-> "idle", call |-> c, ctx |-> c.ctx,
     cancelled |-> FALSE, cancelAt |-> Unset,
     target |-> NoTarget,
     conn |-> "none", closeCalls |-> 0, callerCloses |-> 0,
     regs |-> 0, unregs |-> 0, closeErrs |-> 0, signals |-> 0,
     writes |-> <<>>, sent |-> <<>>,
     session |-> "none", searchCalls |-> 0, searchErr |-> NoErr,
     init |-> FALSE, initAt |-> Unset,
     timer |-> "unarmed", deadline |-> Unset,
     startDial |-> Unset, endSearch |-> Unset, doneAtWait |-> FALSE,
     retConn |-> FALSE, retErr |-> NoErr, retAt |-> Unset]

\* a dial attempt that is never made
Off == [Idle(CHOOSE c \in Calls : c.entry = "Dial" /\ c.network = "tcp"
                                   /\ c.address = <<>>)
            EXCEPT !.pc = "off"]

(***************************************************************************)
(* The Conn and the session (conn.go, session.go), on one dial record.     *)
(***************************************************************************)
\* newConn(d.core, nodeID, nodeMask, nil)
newConn(c) == [c EXCEPT !.conn = "pending"]

\* conn.search() is entered: the locator is invoked
searchBegin(c) ==
    [c EXCEPT !.searchCalls = @ + 1, !.session = "searching"]

\* conn.session.setConn(nil, conn)
setConn(c) == [c EXCEPT !.conn = "bound", !.regs = @ + 1]

\* variant: every call releases a binding, whether there is one or not
Close_AlwaysReleases(c) ==
    [c EXCEPT !.conn = "closed", !.closeCalls = @ + 1,
              !.unregs = @ + 1,
              !.session = IF @ = "none" THEN "none" ELSE "closed"]

\* variant: a call on a Conn that is closed already returns an error
Close_SecondCallFails(c) ==
    [c EXCEPT !.conn = "closed", !.closeCalls = @ + 1,
              !.unregs = IF c.conn = "bound" THEN @ + 1 ELSE @,
              !.closeErrs = IF c.conn = "closed" THEN @ + 1 ELSE @,
              !.session = IF @ = "none" THEN "none" ELSE "closed"]

\* conn.Close(): closes the Conn and its session and releases the binding
\* if there is one; repeated calls are safe and return no error
Close(c) ==
    [c EXCEPT !.conn = "closed", !.closeCalls = @ + 1,
              !.unregs = IF c.conn = "bound" THEN @ + 1 ELSE @,
              !.session = IF @ = "none" THEN "none" ELSE "closed"]

\* the registry after conn.Close() of dial d
\* variant: closing a Conn releases every binding to the same target
Unregister_ByTarget(reg, d) ==
    {e \in reg : dial[e].target # dial[d].target}

Unregister(reg, d) == reg \ {d}

\* the registry after setConn of dial d
Register(reg, d) == reg \cup {d}

(***************************************************************************)
(* Contexts.                                                               *)
(***************************************************************************)
\* the caller's context is done: cancelled, or its deadline has passed
CallerDone(c, t) ==
    \/ c.cancelled
    \/ c.ctx.kind = "deadline" /\ t >= c.ctx.deadline

\* variant: the timeout is put on a fresh context, the caller's deadline is
\* not inherited
WithTimeout_IgnoreParent(ctx, t) == t + DefaultTimeout

\* deadline of context.WithTimeout(ctx, 6*time.Second) created at time t
\* (lines 96-99): the earlier of the parent's deadline and t + 6s
WithTimeout(ctx, t) ==
    IF ctx.kind = "deadline"
    THEN Min(ctx.deadline, t + DefaultTimeout)
    ELSE t + DefaultTimeout

\* variant: the timer fires only after its deadline has passed
CtxDone_Late(c, t) ==
    \/ CallerDone(c, t)
    \/ c.timer = "armed" /\ t > c.deadline

\* variant: only the timer is waited for, the caller's context is dropped
CtxDone_TimerOnly(c, t) == c.timer = "armed" /\ t >= c.deadline

\* variant: the select waits on the caller's context, without the timeout
CtxDone_CallerOnly(c, t) == CallerDone(c, t)

\* <-ctx.Done() of the derived context can proceed
CtxDone(c, t) ==
    \/ CallerDone(c, t)
    \/ c.timer = "armed" /\ t >= c.deadline

\* <-conn.session.init can proceed
InitReady(c) == c.init

(***************************************************************************)
(* Steps of one dial attempt.                                              *)
(***************************************************************************)
Return(c, conn, err, t) ==
    [c EXCEPT !.pc = "done", !.retConn = conn, !.retErr = err, !.retAt = t]

\* DialContext / Dial / DialByPublicKey up to the call of
\* DialByNodeIDandMask, or to their own return
Enter(c, t) ==
    LET r == ResolveAddress(c.call.network, c.call.address)
        Into(tg) == [c EXCEPT !.pc = "dial", !.target = tg]
    IN  CASE c.call.entry = "DialByNodeIDandMask" ->
               Into([nodeID |-> c.call.nodeID, nodeMask |-> c.call.nodeMask])
          [] c.call.entry = "DialByPublicKey" ->
               Into(PublicKeyTarget(c.call.pubKey))
          [] OTHER ->
               CASE r.kind = "error" -> Return(c, FALSE, r.err, t)
                 [] r.kind = "panic" -> [c EXCEPT !.pc = "panic", !.retAt = t]
                 [] r.kind = "key" -> Into(PublicKeyTarget(r.nodeID))
                 [] OTHER ->
                      Into([nodeID |-> r.nodeID, nodeMask |-> r.nodeMask])

\* variant: the timeout context is created before the search
StartSearch_ArmsFirst(c, t) ==
    [searchBegin(newConn(c)) EXCEPT !.pc = "search", !.startDial = t,
                                    !.timer = "armed",
                                    !.deadline = WithTimeout(c.ctx, t)]

\* lines 85-87: startDial, newConn, conn.search() is entered
StartSearch(c, t) ==
    [searchBegin(newConn(c)) EXCEPT !.pc = "search", !.startDial = t]

\* variant: the error is returned without closing the Conn
SearchFailed_NoClose(c, err, t) ==
    Return([c EXCEPT !.searchErr = err], FALSE, err, t)

\* variant: a context that is done turns the failure into the timeout
SearchFailed_CtxFirst(c, err, t) ==
    Return([Close(c) EXCEPT !.searchErr = err], FALSE,
           IF CallerDone(c, t) THEN ErrHandshake ELSE err, t)

\* lines 87-91: conn.search() returned err
SearchFailed(c, err, t) ==
    Return([Close(c) EXCEPT !.searchErr = err], FALSE, err, t)

\* lines 87, 92-93: conn.search() returned nil
SearchDone(c, t) ==
    [c EXCEPT !.pc = "bind", !.endSearch = t, !.session = "handshaking"]

\* line 94
Bind(c) == [setConn(c) EXCEPT !.pc = "arm"]

\* variant: the timeout is counted from the start of the dial
Arm_FromDialStart(c, t) ==
    [c EXCEPT !.pc = "select", !.timer = "armed",
              !.deadline = WithTimeout(c.ctx, c.startDial),
              !.doneAtWait = CallerDone(c, t)]

\* lines 95-100
Arm(c, t) ==
    [c EXCEPT !.pc = "select", !.timer = "armed",
              !.deadline = WithTimeout(c.ctx, t),
              !.doneAtWait = CallerDone(c, t)]

\* variant: the Conn is closed on the success path as well
SelectInit_DeferredClose(c, t) ==
    [Return(Close(c), TRUE, NoErr, t) EXCEPT !.timer = "released"]

\* variant: the success path returns without the deferred cancel
SelectInit_NoCancel(c, t) ==
    Return(c, TRUE, NoErr, t)

\* lines 102-106, then the deferred cancel
SelectInit(c, t) ==
    [Return(c, TRUE, NoErr, t) EXCEPT !.timer = "released"]

\* variant: the Conn is handed out although the handshake did not complete
SelectDone_ReturnsConn(c, t) ==
    [Return(c, TRUE, NoErr, t) EXCEPT !.timer = "released"]

\* lines 107-109, then the deferred cancel
SelectDone(c, t) ==
    [Return(Close(c), FALSE, ErrHandshake, t) EXCEPT !.timer = "released"]

(***************************************************************************)
(* Actions.                                                                *)
(***************************************************************************)
Step(d, c) == dial' = [dial EXCEPT ![d] = c]

DoEnter(d) ==
    /\ dial[d].pc = "idle"
    /\ Step(d, Enter(dial[d], now))
    /\ UNCHANGED <<now, registry>>

DoStartSearch(d) ==
    /\ dial[d].pc = "dial"
    /\ Step(d, StartSearch(dial[d], now))
    /\ UNCHANGED <<now, registry>>

DoSearchFailed(d) ==
    /\ dial[d].pc = "search"
    /\ \E err \in SearchCauses : Step(d, SearchFailed(dial[d], err, now))
    /\ registry' = Unregister(registry, d)
    /\ UNCHANGED now

DoSearchDone(d) ==
    /\ dial[d].pc = "search"
    /\ Step(d, SearchDone(dial[d], now))
    /\ UNCHANGED <<now, registry>>

DoBind(d) ==
    /\ dial[d].pc = "bind"
    /\ Step(d, Bind(dial[d]))
    /\ registry' = Register(registry, d)
    /\ UNCHANGED now

DoArm(d) ==
    /\ dial[d].pc = "arm"
    /\ Step(d, Arm(dial[d], now))
    /\ UNCHANGED <<now, registry>>

DoSelectInit(d) ==
    /\ dial[d].pc = "select"
    /\ InitReady(dial[d])
    /\ Step(d, SelectInit(dial[d], now))
    /\ UNCHANGED <<now, registry>>

DoSelectDone(d) ==
    /\ dial[d].pc = "select"
    /\ CtxDone(dial[d], now)
    /\ Step(d, SelectDone(dial[d], now))
    /\ registry' = Unregister(registry, d)
    /\ UNCHANGED now

\* the remote end completes the handshake: the session closes its init
\* channel
HandshakeComplete(d) ==
    /\ dial[d].session = "handshaking"
    /\ ~dial[d].init
    /\ Step(d, [dial[d] EXCEPT !.init = TRUE, !.initAt = now,
                               !.session = "established"])
    /\ UNCHANGED <<now, registry>>

\* the caller cancels the context it passed
Cancel(d) ==
    /\ dial[d].pc \notin {"off", "done", "panic"}
    /\ dial[d].ctx.kind \in {"cancel", "deadline"}
    /\ ~dial[d].cancelled
    /\ Step(d, [dial[d] EXCEPT !.cancelled = TRUE, !.cancelAt = now])
    /\ UNCHANGED <<now, registry>>

\* a dial that is blocked: in the search, or in the select with no case ready
Blocked(c, t) ==
    \/ c.pc = "search" /\ t < MaxSearch
    \/ c.pc = "select" /\ ~InitReady(c) /\ ~CtxDone(c, t)

\* no dial waits longer than the default timeout after the longest search
TimeCap == MaxSearch + DefaultTimeout

Tick ==
    /\ now <= TimeCap
    /\ \E d \in DialIds : Blocked(dial[d], now)
    /\ \A d \in DialIds :
          dial[d].pc \in {"off", "done", "panic"} \/ Blocked(dial[d], now)
    /\ now' = now + 1
    /\ UNCHANGED <<dial, registry>>

Init ==
    /\ now = 0
    /\ registry = {}
    /\ \E c \in Calls : dial = [d \in DialIds |-> IF d = 1 THEN Idle(c) ELSE Off]

Next ==
    \/ \E d \in DialIds :
          \/ DoEnter(d)
          \/ DoStartSearch(d)
          \/ DoSearchFailed(d)
          \/ DoSearchDone(d)
          \/ DoBind(d)
          \/ DoArm(d)
          \/ DoSelectInit(d)
          \/ DoSelectDone(d)
          \/ HandshakeComplete(d)
          \/ Cancel(d)
    \/ Tick

Spec == Init /\ [][Next]_vars

(***************************************************************************)
(* The returned Conn in the hands of the caller: Close, Write and          *)
(* completion signals that arrive after the session was closed or          *)
(* established.                                                            *)
(***************************************************************************)
MaxCloses == 2

MaxSignals == 2

MaxWrites == 2

MaxMessageSize == 65535

ErrTooLarge == "message too large"

ErrClosed == "connection closed"

WriteSizes ==
    {0, MaxMessageSize, MaxMessageSize + 1, 2 * MaxMessageSize}

\* variant: the limit is exclusive
Write_LimitExclusive(c, n) ==
    LET err == IF n >= MaxMessageSize THEN ErrTooLarge
               ELSE IF c.conn = "closed" THEN ErrClosed ELSE NoErr
    IN  [c EXCEPT !.writes = Append(@, [size |-> n, err |-> err,
                                        open |-> c.conn # "closed"]),
                  !.sent = IF err = NoErr THEN Append(@, n) ELSE @]

\* conn.Write(b) with len(b) = n: one message, or an error and nothing sent
Write(c, n) ==
    LET err == IF n > MaxMessageSize THEN ErrTooLarge
               ELSE IF c.conn = "closed" THEN ErrClosed ELSE NoErr
    IN  [c EXCEPT !.writes = Append(@, [size |-> n, err |-> err,
                                        open |-> c.conn # "closed"]),
                  !.sent = IF err = NoErr THEN Append(@, n) ELSE @]

\* the caller closes the Conn the dial returned
CallerClose(d) ==
    /\ dial[d].pc = "done"
    /\ dial[d].retConn
    /\ dial[d].callerCloses < MaxCloses
    /\ Step(d, [Close(dial[d]) EXCEPT !.callerCloses = @ + 1])
    /\ registry' = Unregister(registry, d)
    /\ UNCHANGED now

\* the caller writes a message of n bytes to the Conn the dial returned
DoWrite(d) ==
    /\ dial[d].pc = "done"
    /\ dial[d].retConn
    /\ Len(dial[d].writes) < MaxWrites
    /\ \E n \in WriteSizes : Step(d, Write(dial[d], n))
    /\ UNCHANGED <<now, registry>>

\* a completion signal for a session that is established or closed already:
\* the init channel is closed at most once and nobody is woken
LateSignal(d) ==
    /\ dial[d].session \in {"established", "closed"}
    /\ dial[d].endSearch # Unset
    /\ dial[d].signals < MaxSignals
    /\ Step(d, [dial[d] EXCEPT !.signals = @ + 1, !.init = TRUE,
                               !.initAt = IF dial[d].init THEN @ ELSE now])
    /\ UNCHANGED <<now, registry>>

ConnCalls ==
    {c \in Calls : /\ c.entry = "DialByNodeIDandMask"
                   /\ c.nodeMask = AllOnesMask
                   /\ c.ctx.kind \in {"nil", "cancel"}}

InitConn ==
    /\ now = 0
    /\ registry = {}
    /\ \E c \in ConnCalls :
          dial = [d \in DialIds |-> IF d = 1 THEN Idle(c) ELSE Off]

NextConn ==
    \/ Next
    \/ \E d \in DialIds :
          \/ CallerClose(d)
          \/ DoWrite(d)
          \/ LateSignal(d)

SpecConn == InitConn /\ [][NextConn]_vars

(***************************************************************************)
(* Two dials at once: both calls of DialByNodeIDandMask are made at time 0 *)
(* and their steps interleave; each holds the locals of its own call.      *)
(***************************************************************************)
ConcDeadline == 1

\* the first dial: an exact-match dial with no context or with a deadline
ConcCalls1 ==
    {c \in Calls : /\ c.entry = "DialByNodeIDandMask"
                   /\ c.nodeMask = AllOnesMask
                   /\ \/ c.ctx.kind = "nil"
                      \/ c.ctx.kind = "deadline" /\
                             c.ctx.deadline = ConcDeadline}

\* the second dial: to the same NodeID, under the same mask or another
ConcCalls2 ==
    {c \in Calls : /\ c.entry = "DialByNodeIDandMask"
                   /\ c.ctx.kind \in {"nil", "cancel"}}

InitConc ==
    /\ now = 0
    /\ registry = {}
    /\ \E c1 \in ConcCalls1, c2 \in ConcCalls2 :
          dial = [d \in DialIds |-> IF d = 1 THEN Idle(c1) ELSE Idle(c2)]

NextConc ==
    \/ Next
    \/ \E d \in DialIds : CallerClose(d)

SpecConc == InitConc /\ [][NextConc]_vars

(***************************************************************************)
(* A dial by public key next to the dial by NodeID and mask it stands for. *)
(* Dial 1 is given the key k (DialByPublicKey, or DialContext and Dial     *)
(* with the hex of k under "curve25519" or "http"); dial 2 is              *)
(* DialByNodeIDandMask(GetNodeID(k), all-ones) under the same context.     *)
(* The two run in lock step under one environment: every step, every       *)
(* answer of the search, every handshake signal and every cancellation is  *)
(* applied to each of the two dials that can take it.                      *)
(***************************************************************************)
\* hex.EncodeToString
EncodeToString(bytes) ==
    [i \in 1..(2 * Len(bytes)) |->
        IF i % 2 = 1 THEN HexChars[(bytes[(i + 1) \div 2] \div 16) + 1]
        ELSE HexChars[(bytes[i \div 2] % 16) + 1]]

KeyNetworks == {"curve25519", "http"}

KeyCalls(k) ==
    {c \in Calls : \/ c.entry = "DialByPublicKey" /\ c.pubKey = k
                   \/ /\ c.entry \in {"DialContext", "Dial"}
                      /\ c.network \in KeyNetworks
                      /\ c.address = EncodeToString(k)}

DirectCall(k, ctx) ==
    [entry |-> "DialByNodeIDandMask", ctx |-> ctx, network |-> "",
     address |-> NoArg, pubKey |-> NoArg,
     nodeID |-> GetNodeID(k), nodeMask |-> AllOnesMask]

InitEquiv ==
    /\ now = 0
    /\ registry = {}
    /\ \E k \in PubKeys : \E c \in KeyCalls(k) :
          dial = [d \in DialIds |->
                     IF d = 1 THEN Idle(c) ELSE Idle(DirectCall(k, c.ctx))]

\* the dials in S take a step: dial d goes to do[d]
Both(S, do) ==
    /\ S # {}
    /\ dial' = [d \in DialIds |-> IF d \in S THEN do[d] ELSE dial[d]]

AtIdle == {d \in DialIds : dial[d].pc = "idle"}

AtDial == {d \in DialIds : dial[d].pc = "dial"}

AtSearch == {d \in DialIds : dial[d].pc = "search"}

AtBind == {d \in DialIds : dial[d].pc = "bind"}

AtArm == {d \in DialIds : dial[d].pc = "arm"}

AtSelectInit ==
    {d \in DialIds : dial[d].pc = "select" /\ InitReady(dial[d])}

AtSelectDone ==
    {d \in DialIds : dial[d].pc = "select" /\ CtxDone(dial[d], now)}

AwaitsHandshake ==
    {d \in DialIds : dial[d].session = "handshaking" /\ ~dial[d].init}

Cancellable ==
    {d \in DialIds : /\ dial[d].pc \notin {"off", "done", "panic"}
                     /\ dial[d].ctx.kind \in {"cancel", "deadline"}
                     /\ ~dial[d].cancelled}

BothEnter ==
    /\ Both(AtIdle, [d \in DialIds |-> Enter(dial[d], now)])
    /\ UNCHANGED <<now, registry>>

BothStartSearch ==
    /\ Both(AtDial, [d \in DialIds |-> StartSearch(dial[d], now)])
    /\ UNCHANGED <<now, registry>>

BothSearchFailed ==
    /\ \E err \in SearchCauses :
          Both(AtSearch, [d \in DialIds |-> SearchFailed(dial[d], err, now)])
    /\ registry' = registry \ AtSearch
    /\ UNCHANGED now

BothSearchDone ==
    /\ Both(AtSearch, [d \in DialIds |-> SearchDone(dial[d], now)])
    /\ UNCHANGED <<now, registry>>

BothBind ==
    /\ Both(AtBind, [d \in DialIds |-> Bind(dial[d])])
    /\ registry' = registry \cup AtBind
    /\ UNCHANGED now

BothArm ==
    /\ Both(AtArm, [d \in DialIds |-> Arm(dial[d], now)])
    /\ UNCHANGED <<now, registry>>

BothSelectInit ==
    /\ Both(AtSelectInit, [d \in DialIds |-> SelectInit(dial[d], now)])
    /\ UNCHANGED <<now, registry>>

BothSelectDone ==
    /\ Both(AtSelectDone, [d \in DialIds |-> SelectDone(dial[d], now)])
    /\ registry' = registry \ AtSelectDone
    /\ UNCHANGED now

BothHandshakeComplete ==
    /\ Both(AwaitsHandshake,
            [d \in DialIds |-> [dial[d] EXCEPT !.init = TRUE, !.initAt = now,
                                               !.session = "established"]])
    /\ UNCHANGED <<now, registry>>

BothCancel ==
    /\ Both(Cancellable,
            [d \in DialIds |-> [dial[d] EXCEPT !.cancelled = TRUE,
                                               !.cancelAt = now]])
    /\ UNCHANGED <<now, registry>>

NextEquiv ==
    \/ BothEnter
    \/ BothStartSearch
    \/ BothSearchFailed
    \/ BothSearchDone
    \/ BothBind
    \/ BothArm
    \/ BothSelectInit
    \/ BothSelectDone
    \/ BothHandshakeComplete
    \/ BothCancel
    \/ Tick

SpecEquiv == InitEquiv /\ [][NextEquiv]_vars

(***************************************************************************)
(* Scheduling.  The clock advances, and a goroutine that can run does run: *)
(* the steps of a dial after conn.search() has returned are taken once     *)
(* they are enabled.  Nothing obliges the search to return, the remote end *)
(* to complete the handshake, or the caller to cancel.                     *)
(***************************************************************************)
AfterSearch ==
    \E d \in DialIds :
        DoBind(d) \/ DoArm(d) \/ DoSelectInit(d) \/ DoSelectDone(d)

SpecLive == Spec /\ WF_vars(Tick) /\ WF_vars(AfterSearch)

(***************************************************************************)
(* Vocabulary of the properties.                                           *)
(***************************************************************************)
Terminated(c) == c.pc \in {"done", "panic"}

Returned(c) == c.pc = "done"

ErrKind(err) ==
    CASE err \in {ErrHex, ErrAtoi, ErrKeyLength} -> "InvalidAddress"
      [] err = ErrAddressType -> "UnsupportedScheme"
      [] err \in SearchCauses -> "SearchFailed"
      [] err = ErrHandshake -> "HandshakeTimedOut"
      [] OTHER -> "none"

\* the dial went through DialContext (Dial calls it with a nil context)
ViaDialContext(c) == c.call.entry \in {"DialContext", "Dial"}

LookupSucceeded(c) == c.endSearch # Unset

\* bit i of a mask, counted from the most significant bit of byte 0
MaskBit(mask, i) == BitOf(mask[(i \div 8) + 1], 7 - (i % 8))

\* H: seconds from lookup completion to the handshake-complete signal
HandshakeDelay(c) == c.initAt - c.endSearch

\* the instant from which <-ctx.Done() can proceed: the timer's deadline or
\* the caller's cancellation, whichever is first
DoneInstant(c) ==
    LET timer == c.endSearch + DefaultTimeout
        caller == IF c.ctx.kind = "deadline" THEN Min(timer, c.ctx.deadline)
                  ELSE timer
    IN  IF c.cancelled THEN Min(caller, c.cancelAt) ELSE caller

\* W: the window of the handshake wait, from lookup completion
Window(c) == Max(0, DoneInstant(c) - c.endSearch)

NoCallerDeadline(c) == c.ctx.kind \in {"nil", "background", "cancel"}

(***************************************************************************)
(* C1.  Every dial attempt ends in exactly one terminal outcome out of     *)
(* success, lookup failure, handshake timeout and input error: a dial      *)
(* that has ended returned either a Conn and no error, or no Conn and an   *)
(* error of one of these kinds.                                            *)
(***************************************************************************)
C1_OneTerminalOutcome ==
    \A d \in DialIds :
        Terminated(dial[d]) =>
            /\ Returned(dial[d])
            /\ dial[d].retConn <=> dial[d].retErr = NoErr
            /\ ~dial[d].retConn =>
                  ErrKind(dial[d].retErr) \in
                      {"InvalidAddress", "UnsupportedScheme",
                       "SearchFailed", "HandshakeTimedOut"}

(***************************************************************************)
(* C2 as stated.  Deadline anchoring: the dial succeeds if and only if H   *)
(* is less than the effective deadline window W, whatever the lookup       *)
(* duration D.                                                             *)
(***************************************************************************)
C2_SucceedsIffWithinWindow ==
    \A d \in DialIds :
        Returned(dial[d]) /\ LookupSucceeded(dial[d]) =>
            (dial[d].retConn <=>
                dial[d].init /\ HandshakeDelay(dial[d]) < Window(dial[d]))

(***************************************************************************)
(* C2 as amended.  The dial succeeds when H < W and fails with the         *)
(* handshake timeout when H > W or the signal never fires; at H = W either *)
(* may happen, and a failure is returned W after lookup completion.  W is  *)
(* the earlier of lookup completion + 6 s, the caller's deadline and the   *)
(* caller's cancellation, measured from lookup completion: with no caller  *)
(* deadline and no cancellation W is 6 s for every D.                      *)
(***************************************************************************)
C2_DeadlineAnchoring ==
    \A d \in DialIds :
        Returned(dial[d]) /\ LookupSucceeded(dial[d]) =>
            /\ dial[d].retConn =>
                  dial[d].init /\ HandshakeDelay(dial[d]) <= Window(dial[d])
            /\ dial[d].init /\ HandshakeDelay(dial[d]) < Window(dial[d]) =>
                  dial[d].retConn
            /\ ~dial[d].retConn =>
                  /\ dial[d].retErr = ErrHandshake
                  /\ dial[d].retAt = dial[d].endSearch + Window(dial[d])
                  /\ NoCallerDeadline(dial[d]) /\ ~dial[d].cancelled =>
                        dial[d].retAt = dial[d].endSearch + DefaultTimeout

C2_Witness ==
    \E d \in DialIds :
        /\ Returned(dial[d]) /\ dial[d].retConn
        /\ dial[d].endSearch > dial[d].startDial
        /\ NoCallerDeadline(dial[d]) /\ ~dial[d].cancelled
        /\ dial[d].initAt > dial[d].startDial + DefaultTimeout

(***************************************************************************)
(* C3.  The effective deadline of the handshake wait is the earlier of the *)
(* caller's deadline and lookup completion + 6 s when the caller supplied  *)
(* a deadline, and exactly lookup completion + 6 s otherwise.              *)
(***************************************************************************)
C3_EffectiveDeadline ==
    \A d \in DialIds :
        dial[d].timer # "unarmed" =>
            /\ dial[d].deadline <= dial[d].endSearch + DefaultTimeout
            /\ dial[d].ctx.kind = "deadline" =>
                  /\ dial[d].deadline <= dial[d].ctx.deadline
                  /\ dial[d].deadline \in
                        {dial[d].ctx.deadline,
                         dial[d].endSearch + DefaultTimeout}
            /\ dial[d].ctx.kind # "deadline" =>
                  dial[d].deadline = dial[d].endSearch + DefaultTimeout

C3_Witness ==
    \E d \in DialIds :
        /\ dial[d].timer = "armed"
        /\ dial[d].ctx.kind = "deadline"
        /\ dial[d].endSearch > dial[d].startDial
        /\ dial[d].deadline = dial[d].endSearch + DefaultTimeout
        /\ dial[d].deadline < dial[d].ctx.deadline

(***************************************************************************)
(* C4.  A dial that returns an error after the pending Conn was            *)
(* constructed has closed that Conn, its binding is not registered any     *)
(* more, and a lookup failure is returned with the locator's own cause.    *)
(***************************************************************************)
C4_ErrorClosesConn ==
    \A d \in DialIds :
        Returned(dial[d]) /\ ~dial[d].retConn /\ dial[d].searchCalls > 0 =>
            /\ dial[d].conn = "closed"
            /\ dial[d].closeCalls >= 1
            /\ d \notin registry
            /\ dial[d].session # "handshaking"
            /\ ~LookupSucceeded(dial[d]) =>
                  /\ dial[d].retErr \in SearchCauses
                  /\ dial[d].retErr = dial[d].searchErr

C4_Witness ==
    \E d \in DialIds :
        /\ Returned(dial[d])
        /\ dial[d].retErr \in SearchCauses
        /\ dial[d].conn = "closed"

(***************************************************************************)
(* C5.  A Conn is returned only if the lookup succeeded and the            *)
(* handshake-complete signal fired before the dial returned; its session   *)
(* is established and the dial has not closed it.                          *)
(***************************************************************************)
C5_ReturnedConnEstablished ==
    \A d \in DialIds :
        Returned(dial[d]) /\ dial[d].retConn =>
            /\ LookupSucceeded(dial[d])
            /\ dial[d].searchErr = NoErr
            /\ dial[d].init
            /\ dial[d].initAt <= dial[d].retAt
            /\ dial[d].session = "established"
            /\ dial[d].conn = "bound"
            /\ dial[d].closeCalls = 0

C5_Witness ==
    \E d \in DialIds :
        /\ Returned(dial[d]) /\ dial[d].retConn
        /\ CtxDone(dial[d], dial[d].retAt)

(***************************************************************************)
(* C6.  An address given to DialContext with malformed hex, a decoded      *)
(* length different from the required one, or a prefix count outside       *)
(* 0..NodeIDBits fails with InvalidAddress, the locator is not invoked and *)
(* no pending Conn is constructed.                                         *)
(***************************************************************************)
InvalidKeyAddress(address) ==
    \/ HexDecodeString(address).err
    \/ Len(HexDecodeString(address).bytes) # BoxPubKeyLen

InvalidNodeIDAddress(address) ==
    LET tokens == Split(address)
    IN  \/ HexDecodeString(tokens[1]).err
        \/ Len(HexDecodeString(tokens[1]).bytes) # NodeIDLen
        \/ /\ Len(tokens) = 2
           /\ ~Atoi(tokens[2]).err
           /\ Atoi(tokens[2]).val \notin 0..NodeIDBits

InvalidInput(call) ==
    \/ call.network \in {"http", "curve25519"} /\ InvalidKeyAddress(call.address)
    \/ call.network = "nodeid" /\ InvalidNodeIDAddress(call.address)

C6_InvalidAddressRejected ==
    \A d \in DialIds :
        /\ ViaDialContext(dial[d])
        /\ dial[d].pc \notin {"off", "idle"}
        /\ InvalidInput(dial[d].call)
        => /\ Returned(dial[d])
           /\ ErrKind(dial[d].retErr) = "InvalidAddress"
           /\ dial[d].searchCalls = 0
           /\ dial[d].conn = "none"

(***************************************************************************)
(* C7 as stated.  With a successful lookup, no handshake-complete signal   *)
(* and no caller deadline, the dial fails with the handshake timeout       *)
(* exactly 6 s after lookup completion and the Conn is closed then.        *)
(***************************************************************************)
C7_TimeoutAfterSixSeconds ==
    \A d \in DialIds :
        /\ Returned(dial[d]) /\ LookupSucceeded(dial[d])
        /\ ~dial[d].init
        /\ NoCallerDeadline(dial[d])
        => /\ dial[d].retErr = ErrHandshake
           /\ dial[d].retAt = dial[d].endSearch + DefaultTimeout
           /\ dial[d].conn = "closed"

(***************************************************************************)
(* C7 as amended.  The same, for a caller that supplied no deadline and    *)
(* has not cancelled its context: the dial is still waiting until 6 s      *)
(* after lookup completion, and then fails with the handshake timeout and  *)
(* the Conn closed.                                                        *)
(***************************************************************************)
C7_DefaultTimeout ==
    \A d \in DialIds :
        /\ LookupSucceeded(dial[d])
        /\ ~dial[d].init
        /\ NoCallerDeadline(dial[d]) /\ ~dial[d].cancelled
        => /\ Returned(dial[d]) =>
                 /\ dial[d].retErr = ErrHandshake
                 /\ ~dial[d].retConn
                 /\ dial[d].retAt = dial[d].endSearch + DefaultTimeout
                 /\ dial[d].conn = "closed"
           /\ ~Returned(dial[d]) =>
                 now <= dial[d].endSearch + DefaultTimeout

C7_Witness ==
    \E d \in DialIds :
        /\ Returned(dial[d]) /\ dial[d].retErr = ErrHandshake
        /\ NoCallerDeadline(dial[d]) /\ ~dial[d].cancelled
        /\ dial[d].endSearch > dial[d].startDial
        /\ dial[d].retAt = dial[d].endSearch + DefaultTimeout

(***************************************************************************)
(* C8 as stated.  If the caller's context is already done when the         *)
(* handshake wait begins, the dial fails with the handshake timeout at     *)
(* once.                                                                   *)
(***************************************************************************)
C8_ExpiredFailsImmediately ==
    \A d \in DialIds :
        Returned(dial[d]) /\ dial[d].doneAtWait =>
            /\ dial[d].retErr = ErrHandshake
            /\ dial[d].retAt = dial[d].endSearch

(***************************************************************************)
(* C8 as amended.  If the caller's context is already done when the        *)
(* handshake wait begins, the dial returns at once; it fails with the      *)
(* handshake timeout unless the handshake-complete signal has fired by     *)
(* then too, in which case the select may take either case.                *)
(***************************************************************************)
C8_ExpiredReturnsImmediately ==
    \A d \in DialIds :
        dial[d].doneAtWait =>
            /\ ~Returned(dial[d]) => now = dial[d].endSearch
            /\ Returned(dial[d]) =>
                  /\ dial[d].retAt = dial[d].endSearch
                  /\ \/ dial[d].retErr = ErrHandshake /\ ~dial[d].retConn
                     \/ /\ dial[d].retConn
                        /\ dial[d].init
                        /\ dial[d].initAt = dial[d].endSearch
                  /\ ~dial[d].init => dial[d].retErr = ErrHandshake

C8_Witness ==
    \E d \in DialIds :
        /\ Returned(dial[d]) /\ dial[d].doneAtWait
        /\ ~dial[d].init
        /\ dial[d].endSearch > dial[d].startDial
        /\ dial[d].retErr = ErrHandshake

(***************************************************************************)
(* C9.  Cancellation or deadline expiry during the lookup does not abort   *)
(* it: a dial in the search leaves it only by the return of the search,    *)
(* a lookup failure is reported with the locator's cause even though the   *)
(* context is done, and the handshake timeout is only returned from the    *)
(* handshake wait.                                                         *)
(***************************************************************************)
C9_LookupNotAborted ==
    [][\A d \in DialIds :
          dial[d].pc = "search" /\ dial'[d].pc # "search" =>
              \/ dial'[d].pc = "bind" /\ dial'[d].endSearch = now
              \/ /\ dial'[d].pc = "done"
                 /\ dial'[d].retErr \in SearchCauses
                 /\ dial'[d].endSearch = Unset]_vars

C9_Witness ==
    \E d \in DialIds :
        /\ Returned(dial[d])
        /\ dial[d].retErr \in SearchCauses
        /\ dial[d].ctx.kind = "deadline"
        /\ dial[d].startDial < dial[d].ctx.deadline
        /\ dial[d].ctx.deadline < dial[d].retAt

(***************************************************************************)
(* C10.  For a "nodeid" address with prefix length p, 0 <= p <=            *)
(* NodeIDBits, the mask passed to the dial has exactly its first p bits    *)
(* set (most significant bit of byte 0 first); an address without a        *)
(* prefix gives the all-ones mask.                                         *)
(***************************************************************************)
C10_PrefixMask ==
    \A d \in DialIds :
        LET tokens == Split(dial[d].call.address)
            p == Atoi(tokens[2]).val
        IN  /\ ViaDialContext(dial[d])
            /\ dial[d].call.network = "nodeid"
            /\ dial[d].pc \notin {"off", "idle"}
            /\ ~HexDecodeString(tokens[1]).err
            => /\ /\ Len(tokens) = 2
                  /\ ~Atoi(tokens[2]).err
                  /\ p \in 0..NodeIDBits
                  => /\ Len(dial[d].target.nodeMask) = NodeIDLen
                     /\ \A i \in 0..(NodeIDBits - 1) :
                           MaskBit(dial[d].target.nodeMask, i) =
                               IF i < p THEN 1 ELSE 0
               /\ Len(tokens) = 1 =>
                     /\ Len(dial[d].target.nodeMask) = NodeIDLen
                     /\ \A i \in 0..(NodeIDBits - 1) :
                           MaskBit(dial[d].target.nodeMask, i) = 1

C10_Witness ==
    \E d \in DialIds :
        /\ ViaDialContext(dial[d])
        /\ dial[d].call.network = "nodeid"
        /\ Len(Split(dial[d].call.address)) = 2
        /\ dial[d].pc = "search"
        /\ dial[d].target.nodeMask = [i \in 1..NodeIDLen |->
                                          IF i = 1 THEN 255
                                          ELSE IF i = 2 THEN 224 ELSE 0]

(***************************************************************************)
(* C11.  The session binding of a Conn is registered at most once, and     *)
(* only after a successful lookup, and released at most once, and only if  *)
(* it was registered: a Close on the lookup-failure path, where no binding *)
(* was made, releases nothing, and once the Conn is closed every binding   *)
(* that was registered has been released.                                  *)
(***************************************************************************)
C11_BindingOncePerLifecycle ==
    \A d \in DialIds :
        /\ dial[d].regs <= 1
        /\ dial[d].unregs <= dial[d].regs
        /\ dial[d].regs = 1 => LookupSucceeded(dial[d])
        /\ d \in registry <=> dial[d].regs = 1 /\ dial[d].unregs = 0
        /\ dial[d].closeCalls >= 1 => dial[d].unregs = dial[d].regs
        /\ dial[d].closeCalls >= 1 /\ ~LookupSucceeded(dial[d]) =>
              dial[d].regs = 0 /\ dial[d].unregs = 0

C11_Witness ==
    \E d \in DialIds :
        /\ Returned(dial[d])
        /\ ~LookupSucceeded(dial[d])
        /\ dial[d].closeCalls = 1
        /\ dial[d].unregs = 0

(***************************************************************************)
(* C12.  Close is idempotent and race-safe: however many Close calls and   *)
(* completion signals there are and in whatever order, no Close returns an *)
(* error and the session binding is released exactly once.                 *)
(***************************************************************************)
C12_CloseIdempotent ==
    \A d \in DialIds :
        /\ dial[d].closeErrs = 0
        /\ dial[d].unregs <= 1
        /\ dial[d].closeCalls >= 1 =>
              /\ dial[d].conn = "closed"
              /\ d \notin registry
              /\ dial[d].regs = 1 =>
                    dial[d].unregs = 1 /\ dial[d].session = "closed"

C12_Witness ==
    \E d \in DialIds :
        /\ dial[d].callerCloses >= 2
        /\ dial[d].signals >= 2
        /\ dial[d].unregs = 1

(***************************************************************************)
(* C13.  A write of up to 65535 bytes on an open Conn is accepted as one   *)
(* message; a write of more than 65535 bytes fails with MessageTooLarge    *)
(* and nothing of it is sent: the messages sent are exactly the accepted   *)
(* writes, whole and in order.                                             *)
(***************************************************************************)
RECURSIVE AcceptedSizes(_)
AcceptedSizes(ws) ==
    IF Len(ws) = 0 THEN <<>>
    ELSE (IF Head(ws).err = NoErr THEN <<Head(ws).size>> ELSE <<>>)
         \o AcceptedSizes(Tail(ws))

C13_MessageSizeBoundary ==
    \A d \in DialIds :
        /\ dial[d].sent = AcceptedSizes(dial[d].writes)
        /\ \A i \in 1..Len(dial[d].writes) :
              LET w == dial[d].writes[i]
              IN  /\ w.size > 65535 => w.err = ErrTooLarge
                  /\ w.size <= 65535 /\ w.open => w.err = NoErr
                  /\ w.err \in {NoErr, ErrTooLarge, ErrClosed}
        /\ \A i \in 1..Len(dial[d].sent) : dial[d].sent[i] <= 65535

C13_Witness ==
    \E d \in DialIds :
        /\ Len(dial[d].writes) = 2
        /\ dial[d].writes[1].size = 65535 /\ dial[d].writes[1].err = NoErr
        /\ dial[d].writes[2].size = 65536
        /\ dial[d].writes[2].err = ErrTooLarge
        /\ dial[d].sent = <<65535>>

(***************************************************************************)
(* C14.  For every network other than "curve25519", "http" and "nodeid",   *)
(* DialContext fails with UnsupportedScheme at once and without side       *)
(* effects: no Conn is constructed, the locator is not invoked, nothing is *)
(* registered, armed or closed.                                            *)
(***************************************************************************)
C14_UnsupportedScheme ==
    \A d \in DialIds :
        /\ ViaDialContext(dial[d])
        /\ dial[d].pc \notin {"off", "idle"}
        /\ dial[d].call.network \notin {"curve25519", "http", "nodeid"}
        => /\ Returned(dial[d])
           /\ ~dial[d].retConn
           /\ ErrKind(dial[d].retErr) = "UnsupportedScheme"
           /\ dial[d].retAt = now
           /\ dial[d].conn = "none"
           /\ dial[d].searchCalls = 0
           /\ dial[d].startDial = Unset
           /\ dial[d].regs = 0 /\ d \notin registry
           /\ dial[d].timer = "unarmed"
           /\ dial[d].closeCalls = 0

C14_Witness ==
    \E d \in DialIds :
        /\ Returned(dial[d])
        /\ dial[d].call.entry = "DialContext"
        /\ dial[d].call.network = "NodeID"
        /\ ~HexDecodeString(dial[d].call.address).err
        /\ dial[d].retErr = ErrAddressType

(***************************************************************************)
(* C15.  Within one dial the state only advances along Idle -> Searching   *)
(* -> HandshakeWait -> Established | SearchFailed | HandshakeTimedOut: the *)
(* binding and the timer exist only after the lookup has completed, never  *)
(* during it; a failed lookup returns SearchFailed without binding or      *)
(* arming anything; the locator is invoked once and the session never      *)
(* moves backwards.                                                        *)
(***************************************************************************)
PcSteps ==
    {<<"idle", "dial">>, <<"idle", "done">>, <<"idle", "panic">>,
     <<"dial", "search">>,
     <<"search", "bind">>, <<"search", "done">>,
     <<"bind", "arm">>, <<"arm", "select">>, <<"select", "done">>}

SessionRank(s) ==
    CASE s = "none" -> 0
      [] s = "searching" -> 1
      [] s = "handshaking" -> 2
      [] s = "established" -> 3
      [] OTHER -> 4

\* the handshake wait of a dial: binding, arming, or the race
InHandshakeWait(c) == c.pc \in {"bind", "arm", "select"}

SequentialState(c) ==
    /\ c.searchCalls <= 1
    /\ c.pc = "search" =>
          /\ c.endSearch = Unset
          /\ c.session = "searching"
          /\ c.conn = "pending" /\ c.regs = 0
          /\ c.timer = "unarmed"
    /\ InHandshakeWait(c) => LookupSucceeded(c) /\ c.searchErr = NoErr
    /\ c.conn = "bound" \/ c.regs > 0 \/ c.timer # "unarmed" =>
          LookupSucceeded(c) /\ c.pc \in {"arm", "select", "done"}
    /\ c.searchErr # NoErr =>
          /\ Returned(c) /\ c.retErr = c.searchErr
          /\ ~LookupSucceeded(c)
          /\ c.regs = 0 /\ c.timer = "unarmed"

C15_StateMachineOrder ==
    [][\A d \in DialIds :
          /\ SequentialState(dial'[d])
          /\ SessionRank(dial'[d].session) >= SessionRank(dial[d].session)
          /\ dial'[d].pc # dial[d].pc =>
                /\ <<dial[d].pc, dial'[d].pc>> \in PcSteps
                /\ dial[d].pc = "search" /\ dial'[d].pc = "done" =>
                      ErrKind(dial'[d].retErr) = "SearchFailed"
                /\ dial[d].pc = "select" /\ dial'[d].pc = "done" =>
                      \/ dial'[d].retConn /\ dial'[d].session = "established"
                      \/ dial'[d].retErr = ErrHandshake]_vars

C15_Witness ==
    \E d \in DialIds :
        /\ Returned(dial[d]) /\ dial[d].retConn
        /\ dial[d].endSearch > dial[d].startDial
        /\ dial[d].initAt > dial[d].endSearch
        /\ dial[d].searchCalls = 1

(***************************************************************************)
(* C19.  The dial closes its Conn at most once and only when it returns an *)
(* error of the lookup or of the handshake wait.  A dial that returns a    *)
(* Conn has never closed it and its session binding is still registered.   *)
(* A dial rejected while resolving the address created no Conn and closed  *)
(* nothing.                                                                *)
(***************************************************************************)
\* the dial ended in DialContext, before DialByNodeIDandMask was called
RejectedOnEntry(c) ==
    \/ c.pc = "panic"
    \/ /\ Returned(c)
       /\ ErrKind(c.retErr) \in {"InvalidAddress", "UnsupportedScheme"}

C19_CloseOnlyOnError ==
    \A d \in DialIds :
        LET c == dial[d] IN
        /\ c.closeCalls <= 1
        /\ c.closeCalls = 1 =>
              /\ Returned(c) /\ ~c.retConn
              /\ c.searchCalls = 1
              /\ ErrKind(c.retErr) \in {"SearchFailed", "HandshakeTimedOut"}
              /\ c.conn = "closed"
        /\ Returned(c) /\ c.retConn =>
              /\ c.closeCalls = 0 /\ c.unregs = 0
              /\ c.conn = "bound" /\ c.regs = 1
        /\ RejectedOnEntry(c) =>
              /\ c.conn = "none" /\ c.closeCalls = 0
              /\ c.searchCalls = 0 /\ c.regs = 0
        /\ Returned(c) /\ ~c.retConn /\ c.searchCalls = 1 => c.closeCalls = 1

C19_Witness ==
    \E d \in DialIds :
        /\ Returned(dial[d]) /\ dial[d].retConn
        /\ dial[d].closeCalls = 0
        /\ dial[d].conn = "bound" /\ dial[d].regs = 1
        /\ dial[d].initAt = dial[d].endSearch + 1

(***************************************************************************)
(* C20.  The timeout context of the handshake wait exists only after a     *)
(* successful lookup and only while the dial is in the wait: it is         *)
(* released by the deferred cancel on success and on timeout, so no        *)
(* terminated dial has an armed timer, and a dial whose lookup failed      *)
(* never armed one.                                                        *)
(***************************************************************************)
C20_TimerReleased ==
    \A d \in DialIds :
        LET c == dial[d] IN
        /\ c.timer = "armed" => c.pc = "select" /\ LookupSucceeded(c)
        /\ c.pc = "select" => c.timer = "armed"
        /\ c.timer # "unarmed" => LookupSucceeded(c)
        /\ Terminated(c) => c.timer # "armed"
        /\ Returned(c) /\ LookupSucceeded(c) => c.timer = "released"
        /\ Returned(c) /\ ~LookupSucceeded(c) => c.timer = "unarmed"

C20_Witness ==
    \E d \in DialIds :
        /\ Returned(dial[d]) /\ dial[d].retConn
        /\ dial[d].timer = "released"
        /\ dial[d].retAt < dial[d].deadline

(***************************************************************************)
(* C17.  Concurrent dials are independent races, also when they dial the   *)
(* same NodeID and mask: every step of one dial, including its timeout,    *)
(* its cancellation and the close of its Conn, leaves the other dial's     *)
(* call state, Conn, timer and session binding as they were; every dial    *)
(* has a binding of its own exactly while its Conn is bound; and each      *)
(* dial's result is decided by its own handshake signal and its own        *)
(* deadline.                                                               *)
(***************************************************************************)
SameTarget(c, e) == c.target # NoTarget /\ c.target = e.target

OwnBinding ==
    \A d \in DialIds : d \in registry <=> dial[d].conn = "bound"

OwnOutcome(c) ==
    Returned(c) /\ LookupSucceeded(c) =>
        /\ c.retConn => /\ c.init /\ c.initAt <= c.retAt
                        /\ c.closeCalls = c.callerCloses
        /\ ~c.retConn => /\ c.retErr = ErrHandshake
                         /\ CallerDone(c, c.retAt) \/ c.retAt = c.deadline
                         /\ c.closeCalls = 1 /\ c.conn = "closed"

C17_ConcurrentDialsIndependent ==
    [][/\ OwnBinding'
       /\ \A d \in DialIds : OwnOutcome(dial'[d])
       /\ \A d \in DialIds :
             dial'[d] # dial[d] =>
                \A e \in DialIds \ {d} :
                    /\ dial'[e] = dial[e]
                    /\ e \in registry' <=> e \in registry]_vars

C17_Witness ==
    /\ SameTarget(dial[1], dial[2])
    /\ Returned(dial[1]) /\ ~dial[1].retConn /\ dial[1].retErr = ErrHandshake
    /\ Returned(dial[2]) /\ dial[2].retConn
    /\ dial[2].retAt > dial[1].retAt
    /\ dial[2].conn = "bound" /\ 2 \in registry

(***************************************************************************)
(* C16.  A dial by public key k -- DialByPublicKey(k), or DialContext or   *)
(* Dial with the hex of k under "curve25519" or "http" -- is the dial      *)
(* DialByNodeIDandMask(GetNodeID(k), all-ones mask): under the same        *)
(* search answers, handshake signals, cancellations and clock the two are  *)
(* at the same place with the same target, Conn, session, timer, deadline  *)
(* and result at every moment, and the NodeID dialled is GetNodeID(k).     *)
(***************************************************************************)
\* everything of a dial but the call that started it
Course(c) == [c EXCEPT !.call = NoArg]

C16_PublicKeyDialEquivalent ==
    /\ Course(dial[1]) = Course(dial[2])
    /\ 1 \in registry <=> 2 \in registry
    /\ dial[1].pc # "idle" =>
          /\ dial[1].target = [nodeID |-> dial[2].call.nodeID,
                               nodeMask |-> AllOnesMask]
          /\ dial[1].pc # "panic"
          /\ Returned(dial[1]) => dial[1].searchCalls = 1

C16_Witness ==
    /\ dial[1].call.entry = "DialContext"
    /\ dial[1].call.network = "http"
    /\ Returned(dial[1]) /\ dial[1].retConn
    /\ Returned(dial[2]) /\ dial[2].retConn
    /\ dial[1].retAt = dial[2].retAt
    /\ dial[1].target.nodeID = dial[2].call.nodeID
    /\ dial[1].initAt > dial[1].endSearch

(***************************************************************************)
(* C18.  As stated: a dial whose lookup has completed eventually returns,  *)
(* and it returns no later than its effective deadline.  This fails for a  *)
(* caller deadline that passed while the lookup was running: the dial      *)
(* returns when the lookup does, after the effective deadline.             *)
(***************************************************************************)
C18_ReturnsByDeadline ==
    \A d \in DialIds :
        LookupSucceeded(dial[d]) ~>
            (Returned(dial[d]) /\ dial[d].retAt <= dial[d].deadline)

(***************************************************************************)
(* C18, amended.  A dial whose lookup has completed eventually returns,    *)
(* with or without a handshake signal or a cancellation: no later than its *)
(* effective deadline, or at the completion of the lookup when the         *)
(* effective deadline had passed by then.                                  *)
(***************************************************************************)
C18_TerminatesAfterLookup ==
    \A d \in DialIds :
        LookupSucceeded(dial[d]) ~>
            /\ Returned(dial[d])
            /\ dial[d].retAt <= Max(dial[d].endSearch, dial[d].deadline)

C18_Witness ==
    \E d \in DialIds :
        /\ Returned(dial[d]) /\ ~dial[d].retConn
        /\ ~dial[d].init /\ ~dial[d].cancelled
        /\ dial[d].ctx.kind \in {"nil", "background", "cancel"}
        /\ dial[d].endSearch > dial[d].startDial
        /\ dial[d].retAt = dial[d].deadline

====
